---- MODULE Spec2Model ----
(***************************************************************************)
(* LanceMemory (controlflow/memory/providers/lance.py): a keyed memory     *)
(* provider over a LanceDB connection.  Callers run add / delete / search  *)
(* concurrently on one provider instance; every engine call (open_table,   *)
(* create_table, table.add, table.delete, table.search) is one atomic step *)
(* of the storage engine, and callers interleave between the steps.        *)
(*                                                                         *)
(* Strings whose characters matter (record ids, the delete filter) are     *)
(* sequences of one-character strings; table names are strings.            *)
(***************************************************************************)
EXTENDS Integers, Sequences, FiniteSets, TLC

VARIABLES
    table_name,     \* the naming template of the provider (field table_name)
    embedding_fn,   \* the field embedding_fn, as the set of dimensionalities
                    \* its ndims() may report
    cached_model,   \* the field _cached_model: NoModel or a schema class
    classes,        \* how many Memory classes get_model has built so far
    tables,         \* the database: table name -> [schema, rows]
    issued,         \* how many uuid4 values have been drawn
    pc,             \* per caller: the position in the running operation,
                    \* "idle" between two calls
    frame,          \* per caller: the arguments and locals of the operation
                    \* that runs (they are gone when it returns)
    ret,            \* per caller: the last completed call as the caller has
                    \* it (what was called, the exception or return value),
                    \* until the caller calls again
    added,          \* history: [id, key, text] of every add that inserted
    deleted,        \* history: <<key, id>> of every completed delete of an
                    \* id that an add had returned
    ops             \* how many operations have been called

vars == <<table_name, embedding_fn, cached_model, classes, tables, issued, pc, frame, ret,
          added, deleted, ops>>

----------------------------------------------------------------------------
(* Bounds of the model *)

MaxOps == 3
MaxAdds == 2

(* Program constants *)

DefaultN == 20

----------------------------------------------------------------------------
(* Input domains *)

Callers == {"c1", "c2"}
Keys == {"a", "b"}
Contents == {"x", "y"}
Queries == {"q"}
Limits == {1, DefaultN}
Dims == {2, 3}
DefaultFn == {2}

KEY == "{key}"
DefaultTemplate == <<"memory-", KEY>>

HexDigits == <<"1", "2", "3", "4", "5", "6", "7", "8", "9", "a", "b", "c">>

\* Caller-supplied ids that no add has generated: an unknown id, an id that
\* closes the quoted literal and continues the filter, and a lone quote.
UnknownId == <<"z">>
InjectId == <<"z", "\"", " ", "O", "R", " ", "i", "d", " ", "!", "=", " ", "\"">>
QuoteId == <<"\"">>
CraftedIds == {UnknownId, InjectId, QuoteId}

NoModel == [cls |-> 0, ndims |-> 0]
NoFrame == [op |-> "none", key |-> "", content |-> "", query |-> "", n |-> 0,
            memory_id |-> <<>>, model |-> NoModel, table |-> ""]
NoRet == [op |-> "none", key |-> "", n |-> 0, err |-> "none", id |-> <<>>, hits |-> <<>>]
NoTable == [exists |-> FALSE, schema |-> 0, rows |-> {}]

----------------------------------------------------------------------------
(* Pure functions *)

Min(a, b) == IF a <= b THEN a ELSE b

\* str.format(key=memory_key) on the template: every "{key}" segment is
\* replaced by the key, every other segment is copied.
\* Variant: the template is used as it stands, the key is never substituted.
RECURSIVE FormatNoKey(_, _)
FormatNoKey(template, memory_key) ==
    IF template = <<>> THEN ""
    ELSE Head(template) \o FormatNoKey(Tail(template), memory_key)

RECURSIVE Format(_, _)
Format(template, memory_key) ==
    IF template = <<>> THEN ""
    ELSE (IF Head(template) = KEY THEN memory_key ELSE Head(template))
         \o Format(Tail(template), memory_key)

\* Variant: the table name does not depend on the key.
TableNameFixed(memory_key) == Format(table_name, "a")

TableName(memory_key) == Format(table_name, memory_key)

\* str(uuid.uuid4()): the i-th value drawn, distinct from every earlier one.
Uuid4(i) == <<HexDigits[i]>>

\* f'id = "{memory_id}"': the id is pasted between two double quotes.
DeleteFilter(memory_id) == <<"i", "d", " ", "=", " ", "\"">> \o memory_id \o <<"\"">>

\* The engine's filter language, as far as the filter above can reach it:
\*   filter ::= cmp (OR cmp)*      cmp ::= id = "text" | id != "text"
BadTok == [t |-> "bad", v |-> <<>>]
Tok(kind) == [t |-> kind, v |-> <<>>]

HasPrefix(s, p) == Len(s) >= Len(p) /\ SubSeq(s, 1, Len(p)) = p
Drop(s, k) == SubSeq(s, k + 1, Len(s))

\* The index of the quote that closes a literal opened at s[1], 0 if none.
ClosingQuote(s) ==
    LET qs == {j \in 2..Len(s) : s[j] = "\""}
    IN  IF qs = {} THEN 0 ELSE CHOOSE j \in qs : \A i \in qs : j <= i

RECURSIVE Lex(_)
Lex(s) ==
    IF s = <<>> THEN <<>>
    ELSE IF Head(s) = " " THEN Lex(Tail(s))
    ELSE IF Head(s) = "\"" THEN
        LET j == ClosingQuote(s)
        IN  IF j = 0 THEN <<BadTok>>
            ELSE <<[t |-> "str", v |-> SubSeq(s, 2, j - 1)]>> \o Lex(Drop(s, j))
    ELSE IF HasPrefix(s, <<"i", "d">>) THEN <<Tok("id")>> \o Lex(Drop(s, 2))
    ELSE IF HasPrefix(s, <<"!", "=">>) THEN <<Tok("ne")>> \o Lex(Drop(s, 2))
    ELSE IF HasPrefix(s, <<"O", "R">>) THEN <<Tok("or")>> \o Lex(Drop(s, 2))
    ELSE IF Head(s) = "=" THEN <<Tok("eq")>> \o Lex(Tail(s))
    ELSE <<BadTok>>

\* A token sequence is a filter when it is cmp (OR cmp)*.
WellFormed(toks) ==
    /\ Len(toks) % 4 = 3
    /\ \A i \in 1..Len(toks) :
         CASE i % 4 = 1 -> toks[i].t = "id"
           [] i % 4 = 2 -> toks[i].t \in {"eq", "ne"}
           [] i % 4 = 3 -> toks[i].t = "str"
           [] OTHER     -> toks[i].t = "or"

\* Whether a row satisfies a well-formed filter.
Matches(toks, row) ==
    \E i \in 1..Len(toks) :
        /\ i % 4 = 2
        /\ IF toks[i].t = "eq" THEN row.id = toks[i + 1].v
                               ELSE row.id /= toks[i + 1].v

\* Variant: the delete is accepted and removes nothing.
DeleteRowsKeepsAll(rows, where) == rows

\* table.delete(where): the rows left, for a filter the engine accepts.
DeleteRows(rows, where) == {r \in rows : ~Matches(Lex(where), r)}

\* Variant: the limit is one too small.
SearchHitsOffByOne(rows, query, n) ==
    {S \in SUBSET rows : Cardinality(S) = Min(n - 1, Cardinality(rows))}

\* Variant: the limit is not applied.
SearchHitsNoLimit(rows, query, n) == {rows}

\* table.search(query).limit(n): the engine ranks the rows by the distance
\* of their vectors to the query's and keeps the n nearest; the ranking is
\* the engine's, so every choice of Min(n, |rows|) rows is possible.
SearchHits(rows, query, n) ==
    {S \in SUBSET rows : Cardinality(S) = Min(n, Cardinality(rows))}

\* Variant: the dict is built from the wrong field, the text is lost.
ToDictNoText(results) == [i \in {r.id : r \in results} |-> ""]

\* {r.id: r.text for r in results}
ToDict(results) ==
    [i \in {r.id : r \in results} |-> (CHOOSE r \in results : r.id = i).text]

----------------------------------------------------------------------------
(* The database *)

Names == {Format(DefaultTemplate, k) : k \in Keys}

Exists(name) == tables[name].exists
Rows(name) == tables[name].rows
RowIds(name) == {r.id : r \in tables[name].rows}
ReturnedIds == {a.id : a \in added}

\* The provider as constructed with its default template and the embedding
\* function fn, over an empty database.
InitWith(fn) ==
    /\ table_name = DefaultTemplate
    /\ embedding_fn = fn
    /\ cached_model = NoModel
    /\ classes = 0
    /\ tables = [name \in Names |-> NoTable]
    /\ issued = 0
    /\ pc = [c \in Callers |-> "idle"]
    /\ frame = [c \in Callers |-> NoFrame]
    /\ ret = [c \in Callers |-> NoRet]
    /\ added = {}
    /\ deleted = {}
    /\ ops = 0

\* The default embedding function always reports the same dimensionality.
Init == InitWith(DefaultFn)

\* An embedding function whose report changes from one call to the next.
InitDrift == InitWith(Dims)

----------------------------------------------------------------------------
(* Steps of one operation *)

\* The call of frame f as its caller has it once it is over.
Outcome(f, kind, id, hits) ==
    [op |-> f.op, key |-> f.key, n |-> f.n, err |-> kind, id |-> id, hits |-> hits]

\* The operation of caller c is over: with an exception of the given kind
\* ("none": it returned), and the value it returned.
Leave(c, f, kind, id, hits) ==
    /\ pc' = [pc EXCEPT ![c] = "idle"]
    /\ frame' = [frame EXCEPT ![c] = NoFrame]
    /\ ret' = [ret EXCEPT ![c] = Outcome(f, kind, id, hits)]

\* An exception nothing catches reaches the caller.
Raise(c, kind) == Leave(c, frame[c], kind, <<>>, <<>>)

\* The operation goes on at another line.
Goto(c, line) ==
    /\ pc' = [pc EXCEPT ![c] = line]
    /\ UNCHANGED <<frame, ret>>

\* A caller in "derive" has seen the empty cache and will store a class.
Deriving == {d \in Callers : pc[d] = "derive"}

\* Where get_model goes after `if self._cached_model is None`.  The cache is
\* never emptied again, so once it is set only a caller already in "derive"
\* can write it between the test and `return self._cached_model`; when there
\* is none the two reads see the same class and are taken as one step.
AfterTest == IF cached_model = NoModel THEN "derive"
             ELSE IF Deriving = {} THEN "open_table" ELSE "ret_model"

\* The call up to the test of get_model: the table name is formatted and the
\* connection made (both local to the caller), or connecting fails.
Enter(c, f) ==
    /\ pc[c] = "idle"
    /\ ops < MaxOps
    /\ ops' = ops + 1
    /\ \/ /\ frame' = [frame EXCEPT ![c] = [f EXCEPT !.table = TableName(f.key),
                           !.model = IF AfterTest = "open_table" THEN cached_model
                                                                 ELSE NoModel]]
          /\ pc' = [pc EXCEPT ![c] = AfterTest]
          /\ ret' = [ret EXCEPT ![c] = NoRet]
       \/ Leave(c, f, "StorageError", <<>>, <<>>)
    /\ UNCHANGED <<table_name, embedding_fn, cached_model, classes, tables, added, deleted>>

\* add(memory_key, content): memory_id = str(uuid.uuid4()), then get_table.
CallAdd(c) ==
    \E k \in Keys, content \in Contents :
        /\ issued < MaxAdds
        /\ issued' = issued + 1
        /\ Enter(c, [NoFrame EXCEPT !.op = "add", !.key = k, !.content = content,
                                    !.memory_id = Uuid4(issued + 1)])

\* delete(memory_key, memory_id): the caller passes an id some add returned,
\* or a string of its own.
CallDelete(c) ==
    \E k \in Keys, id \in ReturnedIds \cup CraftedIds :
        /\ Enter(c, [NoFrame EXCEPT !.op = "delete", !.key = k, !.memory_id = id])
        /\ UNCHANGED issued

\* search(memory_key, query, n), n = 20 when omitted.
CallSearch(c) ==
    \E k \in Keys, q \in Queries, n \in Limits :
        /\ Enter(c, [NoFrame EXCEPT !.op = "search", !.key = k, !.query = q, !.n = n])
        /\ UNCHANGED issued

\* Variant: a derivation that fails has already stored a class.
DeriveStoresOnFailure(c) ==
    /\ pc[c] = "derive"
    /\ \/ \E d \in embedding_fn :
            /\ classes' = classes + 1
            /\ cached_model' = [cls |-> classes + 1, ndims |-> d]
            /\ Goto(c, "ret_model")
       \/ /\ Raise(c, "ConfigurationError")
          /\ classes' = classes + 1
          /\ cached_model' = [cls |-> classes + 1, ndims |-> 0]
    /\ UNCHANGED <<table_name, embedding_fn, tables, issued, added, deleted, ops>>

\* get_model: fn.ndims() is asked, class Memory is built and stored; or the
\* embedding function cannot report its dimensionality.
Derive(c) ==
    /\ pc[c] = "derive"
    /\ \/ \E d \in embedding_fn :
            /\ classes' = classes + 1
            /\ cached_model' = [cls |-> classes + 1, ndims |-> d]
            /\ Goto(c, "ret_model")
       \/ /\ Raise(c, "ConfigurationError")
          /\ UNCHANGED <<classes, cached_model>>
    /\ UNCHANGED <<table_name, embedding_fn, tables, issued, added, deleted, ops>>

\* get_model: return self._cached_model
RetModel(c) ==
    /\ pc[c] = "ret_model"
    /\ frame' = [frame EXCEPT ![c].model = cached_model]
    /\ pc' = [pc EXCEPT ![c] = "open_table"]
    /\ UNCHANGED <<table_name, embedding_fn, cached_model, classes, tables, issued, ret,
                   added, deleted, ops>>

\* What db.open_table(name) can do: hand the table out, raise
\* FileNotFoundError when there is none, or fail in the engine.
OpenOutcomes(name) ==
    {IF Exists(name) THEN "ok" ELSE "FileNotFoundError", "StorageError"}

\* Variant: except Exception
CaughtAll(kind) == TRUE

\* get_table: except FileNotFoundError
Caught(kind) == kind = "FileNotFoundError"

\* get_table: try db.open_table(table_name); a caught exception leads to
\* create_table, any other leaves the operation.
OpenTable(c) ==
    /\ pc[c] = "open_table"
    /\ \E outcome \in OpenOutcomes(frame[c].table) :
          IF outcome = "ok" THEN Goto(c, "act")
          ELSE IF Caught(outcome) THEN Goto(c, "create_table")
          ELSE Raise(c, outcome)
    /\ UNCHANGED <<table_name, embedding_fn, cached_model, classes, tables, issued,
                   added, deleted, ops>>

\* Variant: create_table(..., mode="overwrite") replaces a table that exists.
CreateTableOverwrite(c) ==
    /\ pc[c] = "create_table"
    /\ \/ /\ tables' = [tables EXCEPT ![frame[c].table] =
                           [exists |-> TRUE, schema |-> frame[c].model.ndims, rows |-> {}]]
          /\ Goto(c, "act")
       \/ /\ Raise(c, "StorageError")
          /\ UNCHANGED tables
    /\ UNCHANGED <<table_name, embedding_fn, cached_model, classes, issued, added, deleted, ops>>

\* Variant: the except branch goes on without creating the table.
CreateTableSkipped(c) ==
    /\ pc[c] = "create_table"
    /\ \/ Goto(c, "act")
       \/ Raise(c, "StorageError")
    /\ UNCHANGED <<table_name, embedding_fn, cached_model, classes, tables, issued,
                   added, deleted, ops>>

\* get_table: db.create_table(table_name, schema=model), in the default mode
\* "create": the engine refuses a name that exists.
CreateTable(c) ==
    /\ pc[c] = "create_table"
    /\ \/ /\ ~Exists(frame[c].table)
          /\ tables' = [tables EXCEPT ![frame[c].table] =
                           [exists |-> TRUE, schema |-> frame[c].model.ndims, rows |-> {}]]
          /\ Goto(c, "act")
       \/ /\ Exists(frame[c].table)
          /\ Raise(c, "AlreadyExists")
          /\ UNCHANGED tables
       \/ /\ Raise(c, "StorageError")
          /\ UNCHANGED tables
    /\ UNCHANGED <<table_name, embedding_fn, cached_model, classes, issued, added, deleted, ops>>

\* {"id": memory_id, "text": content}
Record(memory_id, content) == [id |-> memory_id, text |-> content]

\* Variant: an insert that fails has already written the record.
TableAddPartial(c) ==
    /\ pc[c] = "act"
    /\ frame[c].op = "add"
    /\ \/ /\ tables' = [tables EXCEPT ![frame[c].table].rows =
                           @ \cup {Record(frame[c].memory_id, frame[c].content)}]
          /\ added' = added \cup {[id |-> frame[c].memory_id, key |-> frame[c].key,
                                   text |-> frame[c].content]}
          /\ Leave(c, frame[c], "none", frame[c].memory_id, <<>>)
       \/ /\ tables' = [tables EXCEPT ![frame[c].table].rows =
                           @ \cup {Record(frame[c].memory_id, frame[c].content)}]
          /\ Raise(c, "StorageError")
          /\ UNCHANGED added
    /\ UNCHANGED <<table_name, embedding_fn, cached_model, classes, issued, deleted, ops>>

\* add: table.add([{"id": memory_id, "text": content}]); return memory_id
TableAdd(c) ==
    /\ pc[c] = "act"
    /\ frame[c].op = "add"
    /\ \/ /\ tables' = [tables EXCEPT ![frame[c].table].rows =
                           @ \cup {Record(frame[c].memory_id, frame[c].content)}]
          /\ added' = added \cup {[id |-> frame[c].memory_id, key |-> frame[c].key,
                                   text |-> frame[c].content]}
          /\ Leave(c, frame[c], "none", frame[c].memory_id, <<>>)
       \/ /\ Raise(c, "StorageError")
          /\ UNCHANGED <<tables, added>>
    /\ UNCHANGED <<table_name, embedding_fn, cached_model, classes, issued, deleted, ops>>

\* delete: table.delete(f'id = "{memory_id}"'); the engine rejects a filter
\* it cannot parse.
TableDelete(c) ==
    /\ pc[c] = "act"
    /\ frame[c].op = "delete"
    /\ LET where == DeleteFilter(frame[c].memory_id)
       IN  \/ /\ WellFormed(Lex(where))
              /\ tables' = [tables EXCEPT ![frame[c].table].rows = DeleteRows(@, where)]
              /\ deleted' = deleted \cup
                     ({<<frame[c].key, frame[c].memory_id>>} \cap (Keys \X ReturnedIds))
              /\ Leave(c, frame[c], "none", <<>>, <<>>)
           \/ /\ ~WellFormed(Lex(where))
              /\ Raise(c, "FilterError")
              /\ UNCHANGED <<tables, deleted>>
           \/ /\ Raise(c, "StorageError")
              /\ UNCHANGED <<tables, deleted>>
    /\ UNCHANGED <<table_name, embedding_fn, cached_model, classes, issued, added, ops>>

\* Variant: a search removes the records of the table it reads.
TableSearchConsumes(c) ==
    /\ pc[c] = "act"
    /\ frame[c].op = "search"
    /\ \/ /\ \E results \in SearchHits(Rows(frame[c].table), frame[c].query, frame[c].n) :
                Leave(c, frame[c], "none", <<>>, ToDict(results))
          /\ tables' = [tables EXCEPT ![frame[c].table].rows = {}]
       \/ /\ Raise(c, "StorageError")
          /\ UNCHANGED tables
    /\ UNCHANGED <<table_name, embedding_fn, cached_model, classes, issued,
                   added, deleted, ops>>

\* search: table.search(query).limit(n).to_pydantic(model), then the dict.
TableSearch(c) ==
    /\ pc[c] = "act"
    /\ frame[c].op = "search"
    /\ \/ \E results \in SearchHits(Rows(frame[c].table), frame[c].query, frame[c].n) :
            Leave(c, frame[c], "none", <<>>, ToDict(results))
       \/ Raise(c, "StorageError")
    /\ UNCHANGED <<table_name, embedding_fn, cached_model, classes, tables, issued,
                   added, deleted, ops>>

Next ==
    \E c \in Callers :
        \/ CallAdd(c)
        \/ CallDelete(c)
        \/ CallSearch(c)
        \/ Derive(c)
        \/ RetModel(c)
        \/ OpenTable(c)
        \/ CreateTable(c)
        \/ TableAdd(c)
        \/ TableDelete(c)
        \/ TableSearch(c)

Spec == Init /\ [][Next]_vars

SpecDrift == InitDrift /\ [][Next]_vars

----------------------------------------------------------------------------
(* Steps the properties speak about *)

\* Caller c's search gets its answer from the engine in this step.
SearchStep(c) ==
    /\ pc[c] = "act" /\ frame[c].op = "search"
    /\ pc'[c] = "idle" /\ ret'[c].err = "none"

\* Caller c's delete is answered by the engine in this step (the engine
\* itself did not fail).
DeleteStep(c) ==
    /\ pc[c] = "act" /\ frame[c].op = "delete"
    /\ pc'[c] = "idle" /\ ret'[c].err /= "StorageError"

\* The adds that returned an id for a key of the given table.
AddedTo(name) == {a \in added : TableName(a.key) = name}

\* Two keys that the naming template keeps apart: they differ, and the
\* template has the placeholder that carries the key into the table name.
KeysApart(k1, k2) ==
    k1 /= k2 /\ \E i \in DOMAIN table_name : table_name[i] = KEY

\* Every stored record is one that a returning add inserted under a key of
\* its table, with the text of that add.
RowsWereAdded ==
    \A name \in Names : \A r \in Rows(name) :
        \E a \in AddedTo(name) : a.id = r.id /\ a.text = r.text

\* No caller other than c has called anything yet.
OnlyCaller(c) == \A d \in Callers \ {c} : pc[d] = "idle" /\ ret[d] = NoRet

----------------------------------------------------------------------------
(* C1: key isolation.  For two keys whose table names differ, no result of *)
(* a search on one key contains the id of a record added under the other.  *)
C1_KeyIsolation ==
    \A c \in Callers :
        ret[c].op = "search" =>
            \A a \in added :
                KeysApart(a.key, ret[c].key) => a.id \notin DOMAIN ret[c].hits

\* A search on one key has returned a record while another key holds one.
C1_Witness ==
    \E c \in Callers :
        /\ ret[c].op = "search" /\ ret[c].err = "none"
        /\ DOMAIN ret[c].hits /= {}
        /\ \E a \in added :
              /\ KeysApart(a.key, ret[c].key)
              /\ a.id \in RowIds(TableName(a.key))

(* C2: race-safe open-or-create.  When two callers first touch the same    *)
(* key concurrently, both operations succeed: no "already exists" error of *)
(* create_table reaches a caller.                                          *)
C2_RaceSafeCreate ==
    \A c \in Callers : ret[c].err /= "AlreadyExists"

(* C3: delete takes effect.  Once add(k, text) has returned X and a        *)
(* delete(k, X) has completed, no later search(k, q, n) returns X.         *)
C3_DeleteTakesEffect ==
    [][\A c \in Callers :
          SearchStep(c) =>
              \A d \in deleted :
                  (d[1] = frame[c].key /\ \E a \in added : a.id = d[2] /\ a.key = d[1])
                      => d[2] \notin DOMAIN ret'[c].hits]_vars

\* One caller has added under k, deleted the returned id and then searched k.
C3_Witness ==
    \E c \in Callers :
        /\ OnlyCaller(c)
        /\ ret[c].op = "search" /\ ret[c].err = "none"
        /\ \E d \in deleted :
              d[1] = ret[c].key /\ \E a \in added : a.id = d[2] /\ a.key = d[1]

(* C4: added records are findable.  When add(k, text) has returned X and   *)
(* X is still stored (no delete has removed it), a search(k, q, n) on a    *)
(* space holding at most n records returns a mapping with X -> text.       *)
C4_AddedIsFound ==
    [][\A c \in Callers :
          SearchStep(c) =>
              \A a \in added :
                  ( /\ a.key = frame[c].key
                    /\ a.id \in RowIds(frame[c].table)
                    /\ Cardinality(Rows(frame[c].table)) <= frame[c].n )
                  => /\ a.id \in DOMAIN ret'[c].hits
                     /\ ret'[c].hits[a.id] = a.text]_vars

\* A search has returned the entry of an add on its key.
C4_Witness ==
    \E c \in Callers :
        /\ ret[c].op = "search" /\ ret[c].err = "none"
        /\ \E a \in added :
              /\ a.key = ret[c].key
              /\ a.id \in DOMAIN ret[c].hits
              /\ ret[c].hits[a.id] = a.text

(* C5: search soundness.  Every entry id -> text of a search(k, q, n) is a *)
(* record stored in space k at the time of the search: an add(k, text)     *)
(* returned that id with that text and it is still in the table; and a     *)
(* stored record always carries the text it was added with.                *)
C5_SearchSound ==
    /\ []RowsWereAdded
    /\ [][\A c \in Callers :
             SearchStep(c) =>
                 \A i \in DOMAIN ret'[c].hits :
                     /\ i \in RowIds(frame[c].table)
                     /\ <<frame[c].key, i>> \notin deleted
                     /\ \E a \in added :
                           a.id = i /\ a.key = frame[c].key /\ a.text = ret'[c].hits[i]]_vars

\* A search has returned two records with different texts.
C5_Witness ==
    \E c \in Callers :
        /\ ret[c].op = "search" /\ ret[c].err = "none"
        /\ \E i, j \in DOMAIN ret[c].hits : ret[c].hits[i] /= ret[c].hits[j]

(* C6: result cap.  search(k, q, n) with n > 0 returns at most n entries,  *)
(* however many records the space holds; n is 20 when omitted.             *)
C6_ResultCap ==
    \A c \in Callers :
        ret[c].op = "search" => Cardinality(DOMAIN ret[c].hits) <= ret[c].n

\* A lone caller's search with n = 1 on a space of two records returned one.
C6_Witness ==
    \E c \in Callers :
        /\ OnlyCaller(c)
        /\ ret[c].op = "search" /\ ret[c].err = "none" /\ ret[c].n = 1
        /\ Cardinality(DOMAIN ret[c].hits) = 1
        /\ Cardinality(Rows(TableName(ret[c].key))) = 2

\* Failures of the collaborators (storage engine, embedding function) that
\* no property below holds against the provider.
CollaboratorFaults == {"StorageError", "ConfigurationError"}

(* C7: search on a key that was never used, or on a space with no records, *)
(* does not fail: the table exists afterwards and the mapping is empty.    *)
C7_SearchOnEmptySucceeds ==
    [][\A c \in Callers :
          ( /\ pc[c] /= "idle" /\ frame[c].op = "search" /\ pc'[c] = "idle"
            /\ Rows(frame[c].table) = {} )
          => /\ ret'[c].err \in {"none"} \cup CollaboratorFaults
             /\ ret'[c].err = "none" =>
                   /\ DOMAIN ret'[c].hits = {}
                   /\ tables'[frame[c].table].exists]_vars

(* C8: delete of an absent id is a no-op.  When id is the identifier of no *)
(* record of space k, delete(k, id) returns without error and leaves the   *)
(* records of the space as they were.                                      *)
C8_DeleteAbsentIsNoOp ==
    [][\A c \in Callers :
          (DeleteStep(c) /\ frame[c].memory_id \notin RowIds(frame[c].table))
          => /\ ret'[c].err = "none"
             /\ tables' = tables]_vars

(* C9: delete matches by exact identifier only.  For every id string,      *)
(* delete(k, id) removes exactly the records of space k whose id equals    *)
(* that string and leaves every other record in place.                     *)
C9_DeleteExactId ==
    [][\A c \in Callers :
          DeleteStep(c)
          => tables' = [tables EXCEPT ![frame[c].table].rows =
                           {r \in @ : r.id /= frame[c].memory_id}]]_vars

\* The add of caller c is over in this step, after it got past connecting.
AddLeaves(c) == pc[c] /= "idle" /\ frame[c].op = "add" /\ pc'[c] = "idle"

(* C10: add is all-or-nothing.  An add that returns an id has inserted     *)
(* exactly one new record, with that id and text = content; an add that    *)
(* fails returns no id and leaves no record with the generated id; and no  *)
(* record is ever stored that a returning add did not insert.              *)
C10_AddAllOrNothing ==
    /\ [](/\ RowsWereAdded
          /\ \A c \in Callers :
                ret[c].op = "add" =>
                    IF ret[c].err = "none"
                    THEN \E a \in added : a.id = ret[c].id /\ a.key = ret[c].key
                    ELSE ret[c].id = <<>>)
    /\ [][\A c \in Callers :
             AddLeaves(c) =>
                 IF ret'[c].err = "none"
                 THEN /\ pc[c] = "act"
                      /\ ret'[c].id = frame[c].memory_id
                      /\ frame[c].memory_id \notin RowIds(frame[c].table)
                      /\ tables' = [tables EXCEPT ![frame[c].table].rows =
                            @ \cup {[id |-> frame[c].memory_id, text |-> frame[c].content]}]
                 ELSE /\ ret'[c].id = <<>>
                      /\ tables' = tables
                      /\ \A name \in Names : frame[c].memory_id \notin RowIds(name)]_vars

\* One add has returned its id and the record is stored, another has failed.
C10_Witness ==
    \E c, d \in Callers :
        /\ ret[c].op = "add" /\ ret[c].err = "none"
        /\ \E a \in added :
              a.id = ret[c].id /\ [id |-> a.id, text |-> a.text] \in Rows(TableName(a.key))
        /\ ret[d].op = "add" /\ ret[d].err /= "none"

(* C11: compute-once schema under concurrency.  Under every interleaving   *)
(* of first calls to get_model the embedding function's ndims() is asked   *)
(* at most once and one schema class is built, which every caller gets.    *)
C11_ComputeOnce ==
    /\ classes <= 1
    /\ \A c, d \in Callers :
          (frame[c].model /= NoModel /\ frame[d].model /= NoModel)
              => frame[c].model = frame[d].model

(* C12: uniform dimensionality.  Every table the provider creates has the  *)
(* same vector dimensionality, whatever ndims() would report later.        *)
C12_UniformDims ==
    \A n1, n2 \in Names :
        (Exists(n1) /\ Exists(n2)) => tables[n1].schema = tables[n2].schema

\* The lines of an operation in the order the code reaches them.
Lines == <<"idle", "derive", "ret_model", "open_table", "create_table", "act">>
Rank(line) == CHOOSE i \in DOMAIN Lines : Lines[i] = line

\* The lines at which the storage engine is called.
EngineLines == {"open_table", "create_table", "act"}

\* Caller c takes a step of operation op (its call included).
Runs(c, op) ==
    /\ frame[c].op = op \/ frame'[c].op = op \/ (pc[c] = "idle" /\ ret'[c].op = op)
    /\ <<pc[c], frame[c], ret[c]>> /= <<pc'[c], frame'[c], ret'[c]>>

\* Caller c's operation ends with an error in this step.
Fails(c) == pc[c] /= "idle" /\ pc'[c] = "idle" /\ ret'[c].err /= "none"

(* C13: spaces are created on first use and persist.  After an add, delete *)
(* or search on key k has returned, the table of k exists; a table that    *)
(* exists goes on existing with its schema, and its records change only by *)
(* an insert or a delete on that very table.                               *)
C13_SpacesPersist ==
    /\ [](\A c \in Callers :
            (ret[c].op /= "none" /\ ret[c].err = "none")
                => Exists(TableName(ret[c].key)))
    /\ [][\A name \in Names :
            /\ Exists(name) =>
                  /\ tables'[name].exists
                  /\ tables'[name].schema = tables[name].schema
            /\ Rows(name) /= tables'[name].rows =>
                  /\ Exists(name)
                  /\ \E c \in Callers :
                        /\ pc[c] = "act" /\ frame[c].op \in {"add", "delete"}
                        /\ frame[c].table = name /\ pc'[c] = "idle"]_vars

C13_Witness ==
    \E c, d \in Callers :
        /\ c /= d
        /\ ret[c].op = "delete" /\ ret[c].err = "none"
        /\ ret[d].op = "search" /\ ret[d].err = "none"
        /\ ret[c].key = ret[d].key
        /\ Exists(TableName(ret[d].key))
        /\ ops = MaxOps

(* C14: storage failures are surfaced, not swallowed or retried.  A failed *)
(* open leads to create_table only when the table is not there, and        *)
(* otherwise ends the operation with the engine's error; the step in which *)
(* an engine call fails changes no table; and an operation only moves      *)
(* forward through its lines, so no call is made a second time.            *)
C14_FailuresSurface ==
    [][\A c \in Callers :
          /\ (pc[c] = "open_table" /\ pc'[c] = "create_table")
                => ~Exists(frame[c].table)
          /\ (pc[c] = "open_table" /\ pc'[c] = "idle")
                => ret'[c].err = "StorageError"
          /\ (pc[c] \in EngineLines /\ Fails(c))
                => /\ ret'[c].id = <<>> /\ ret'[c].hits = <<>>
                   /\ UNCHANGED <<tables, added, deleted, cached_model>>
          /\ (pc[c] /= "idle" /\ pc'[c] \notin {"idle", pc[c]})
                => Rank(pc'[c]) > Rank(pc[c])]_vars

C14_Witness ==
    \E c \in Callers :
        /\ OnlyCaller(c)
        /\ ret[c].op = "delete" /\ ret[c].err = "StorageError"
        /\ Exists(TableName(ret[c].key))
        /\ Rows(TableName(ret[c].key)) /= {}

(* C15: the schema cache is write-once.  Once _cached_model holds a class  *)
(* it is never cleared or replaced, and no further class is built.         *)
C15_CacheWriteOnce ==
    [][cached_model /= NoModel =>
          (cached_model' = cached_model /\ classes' = classes)]_vars

(* C16: a schema derivation that fails leaves no trace.  When ndims()      *)
(* cannot be reported the operation ends there with that error, returning  *)
(* nothing; it stores no class, creates no table and inserts or deletes no *)
(* record; and this error comes from nowhere else.                         *)
C16_DeriveFailureLeavesNoTrace ==
    [][\A c \in Callers :
          /\ (pc[c] = "derive" /\ pc'[c] = "idle")
                => /\ ret'[c].err = "ConfigurationError"
                   /\ ret'[c].id = <<>> /\ ret'[c].hits = <<>>
                   /\ UNCHANGED <<cached_model, classes, tables, added, deleted>>
          /\ (ret'[c].err = "ConfigurationError" /\ ret'[c] /= ret[c])
                => pc[c] = "derive"
          /\ (classes = 0 /\ Fails(c)) => cached_model' = NoModel]_vars

C16_Witness ==
    \E c \in Callers :
        /\ ret[c].err = "ConfigurationError"
        /\ cached_model = NoModel
        /\ \A name \in Names : ~Exists(name)
        /\ added = {}

(* C17: cross-space frame.  Every table that a step of an add or a delete  *)
(* on key k1 changes, in its records or in whether it exists, is the table *)
(* of k1: the table of a key k2 whose name differs is left as it was,      *)
(* whatever the other callers are doing.                                   *)
C17_CrossSpaceFrame ==
    [][\A name \in Names :
          tables'[name] /= tables[name] =>
              \A c \in Callers :
                  (Runs(c, "add") \/ Runs(c, "delete")) =>
                      /\ name = Format(table_name, frame[c].key)
                      /\ \A k2 \in Keys :
                            KeysApart(frame[c].key, k2)
                                => name /= Format(table_name, k2)]_vars

C17_Witness ==
    /\ \A name \in Names : Rows(name) /= {}
    /\ \E c \in Callers :
          /\ ret[c].op = "add" /\ ret[c].err = "none"
          /\ \E k2 \in Keys : KeysApart(ret[c].key, k2)

C19_NoLostWrites ==
    [][\A c \in Callers :
          /\ (AddLeaves(c) /\ ret'[c].err = "none")
                => /\ ret'[c].id = frame[c].memory_id
                   /\ Record(frame[c].memory_id, frame[c].content)
                          \in tables'[frame[c].table].rows
          /\ (pc[c] = "create_table" /\ pc'[c] /= "create_table"
                /\ Exists(frame[c].table))
                => /\ tables' = tables
                   /\ ret'[c].err \in {"AlreadyExists", "StorageError"}
          /\ \A name \in Names :
                ~(Rows(name) \subseteq tables'[name].rows)
                    => \E d \in Callers :
                          /\ pc[d] = "act" /\ frame[d].op = "delete"
                          /\ frame[d].table = name]_vars

C19_Witness ==
    \E c, d \in Callers :
        /\ ret[c].op = "add" /\ ret[c].err = "none"
        /\ ret[d].op = "add" /\ ret[d].err = "AlreadyExists"
        /\ ret[c].key = ret[d].key
        /\ ret[c].id \in RowIds(TableName(ret[c].key))

====
